---- MODULE Spec2Model ----
(***************************************************************************)
(* Customer / payment backend of Gayathri-Mallimoggala/backend.            *)
(*                                                                         *)
(* The repository holds two server programs:                               *)
(*   - src/unnamed/part_000  (customers CRUD, payments with status flip,   *)
(*     sendNotification over the websocket server, overdue scan, upload);  *)
(*   - src/src/server.js     (customers add/list, payments insert only,    *)
(*     overdue scan calling a sendNotification it never defines, upload).  *)
(* Spec is the first program, SpecSrc the second.  Both run against the    *)
(* same tables, so they share the variables.  The handlers share the       *)
(* tables and nothing else; SpecEmit, SpecScan, SpecCustomers and          *)
(* SpecUpload compose the handlers of part_000 by the state they touch.    *)
(* The handler of POST /upload-customers and checkOverduePayments are the  *)
(* same text in both files.                                                *)
(*                                                                         *)
(* Every `await pool.execute(...)` is a suspension point: the statement is *)
(* executed by the database at some moment and may fail (StorageError).    *)
(* An action is one database statement together with the synchronous code  *)
(* of the handler that runs once it has resolved (up to the next await).   *)
(***************************************************************************)
EXTENDS Integers, Sequences, FiniteSets, TLC

\* ------------------------------------------------------------------ bounds
MaxCustomers == 2      \* AUTO_INCREMENT ids handed out for customers
MaxPayments == 1       \* POST /payments requests
MaxTicks == 2          \* firings of the setInterval timer
MaxSockets == 2        \* websocket connections accepted
MaxBatch == 2          \* rows of an uploaded sheet

\* ------------------------------------------------------------------ inputs
Undefined == "undefined"
Names == {"Acme"}
Amounts == {100}
DueDates == {0, 1}
Statuses == {"Pending", "Completed"}

\* req.body of POST /customers and a row of the uploaded sheet.  A field the
\* caller left out is undefined.
Payloads ==
  [name : Names \cup {Undefined}, contact : {"555-0100"},
   outstandingAmount : {500}, dueDate : DueDates, paymentStatus : Statuses]

VARIABLES
  now,              \* NOW() of the database server, in timer intervals
  customers,        \* table customers: set of rows
  nextCustomerId,   \* AUTO_INCREMENT of customers
  payments,         \* table payments: set of rows
  notifications,    \* table notifications: sequence of rows, in insert order
  clients,          \* wss.clients: socket ids in insertion order
  readyState,       \* readyState of every socket accepted so far
  sent,             \* client.send calls made: [n, to, threw]
  emits,            \* sendNotification calls in flight
  errorLog,         \* console.error lines of sendNotification, with the
                    \* statement that threw
  scans,            \* overdueCustomers of every checkOverduePayments call
  payReq,           \* POST /payments in flight
  nPayReqs,         \* POST /payments requests received
  responses,        \* HTTP responses written
  upload,           \* POST /upload-customers in flight (its transaction)
  uploadResps,      \* responses written by POST /upload-customers
  getResp,          \* last response to GET /customers/:id
  unhandled,        \* rejected promises nobody handles
  running           \* the node process is alive

vars ==
  <<now, customers, nextCustomerId, payments, notifications, clients,
    readyState, sent, emits, errorLog, scans, payReq, nPayReqs, responses,
    upload, uploadResps, getResp, unhandled, running>>

NoPayment == [pc |-> "idle", n |-> 0, customerId |-> 0, amount |-> 0]
NoUpload == [pc |-> "idle", rows |-> <<>>, i |-> 0, tx |-> {}]
NoResp == [status |-> 0, id |-> 0, body |-> ""]

Init ==
  /\ now = 0
  /\ customers = {}
  /\ nextCustomerId = 1
  /\ payments = {}
  /\ notifications = <<>>
  /\ clients = <<>>
  /\ readyState = <<>>
  /\ sent = {}
  /\ emits = {}
  /\ errorLog = {}
  /\ scans = <<>>
  /\ payReq = NoPayment
  /\ nPayReqs = 0
  /\ responses = {}
  /\ upload = NoUpload
  /\ uploadResps = {}
  /\ getResp = NoResp
  /\ unhandled = {}
  /\ running = TRUE

\* ------------------------------------------------------------- helpers
Ids(rows) == {r.id : r \in rows}

\* A row as the INSERT stores it under the id AUTO_INCREMENT hands out.
Row(p, id) ==
  [id |-> id, name |-> p.name, contact |-> p.contact,
   outstandingAmount |-> p.outstandingAmount, dueDate |-> p.dueDate,
   paymentStatus |-> p.paymentStatus]

\* mysql2 rejects a bind parameter that is undefined before the statement
\* reaches the server.
BindsUndefined(p) == p.name = Undefined

Response(kind, n, status, customerId, amount) ==
  [kind |-> kind, n |-> n, status |-> status, customerId |-> customerId,
   amount |-> amount]

LogLine(tag, by, cid) == [tag |-> tag, by |-> by, cid |-> cid]

Caller(kind, n) == [kind |-> kind, n |-> n]

\* One call sendNotification({type, message}); the message text is built
\* from name, cid and amount.
Emit(by, type, name, cid, amount) ==
  [by |-> by, type |-> type, name |-> name, cid |-> cid, amount |-> amount]

OpenClients == {c \in DOMAIN readyState : readyState[c] = "OPEN"}

\* ------------------------------------------------------ sendNotification
\* wss.clients.forEach: the sockets that get a client.send call, in order,
\* when the send to `thrower` throws (0: no send throws).  The throw leaves
\* forEach, so the sockets behind the thrower are not reached.
RECURSIVE SendLoop(_, _)
SendLoop(cs, thrower) ==
  IF cs = <<>> THEN <<>>
  ELSE IF readyState[Head(cs)] # "OPEN" THEN SendLoop(Tail(cs), thrower)
  ELSE IF Head(cs) = thrower THEN <<Head(cs)>>
  ELSE <<Head(cs)>> \o SendLoop(Tail(cs), thrower)

\* What the awaiting caller does once sendNotification has resolved:
\* POST /customers and POST /payments answer 200, the scan callback ends.
AfterEmit(e) ==
  /\ responses' =
       IF e.by.kind = "scan" THEN responses
       ELSE responses \cup
              {Response(e.by.kind, e.by.n, 200,
                        IF e.by.kind = "payments" THEN e.cid ELSE 0, e.amount)}
  /\ payReq' = IF e.by.kind = "payments" THEN NoPayment ELSE payReq

\* INSERT INTO notifications succeeds, then wss.clients.forEach(send); a
\* send that throws is caught and logged.
sendNotification(e, thrower) ==
  /\ e \in emits
  /\ thrower \in OpenClients \cup {0}
  /\ notifications' =
       Append(notifications,
              [type |-> e.type, name |-> e.name, cid |-> e.cid,
               amount |-> e.amount, by |-> e.by])
  /\ LET reached == SendLoop(clients, thrower)
     IN  /\ sent' = sent \cup
                      {[n |-> Len(notifications) + 1, to |-> reached[k],
                        threw |-> reached[k] = thrower] : k \in DOMAIN reached}
         /\ errorLog' =
              IF \E k \in DOMAIN reached : reached[k] = thrower
              THEN errorLog \cup {LogLine("Notification Error: send", e.by, e.cid)}
              ELSE errorLog
  /\ emits' = emits \ {e}
  /\ AfterEmit(e)
  /\ UNCHANGED <<now, customers, nextCustomerId, payments, clients,
                 readyState, scans, nPayReqs, upload, uploadResps, getResp,
                 unhandled, running>>

\* sendNotificationFail with the broadcast outside the try block: the
\* message is pushed although its row was not stored.
sendNotificationFailPush(e) ==
  /\ e \in emits
  /\ emits' = emits \ {e}
  /\ errorLog' = errorLog \cup {LogLine("Notification Error: insert", e.by, e.cid)}
  /\ sent' = sent \cup
       {[n |-> Len(notifications) + 1, to |-> c, threw |-> FALSE]
          : c \in OpenClients}
  /\ AfterEmit(e)
  /\ UNCHANGED <<now, customers, nextCustomerId, payments, notifications,
                 clients, readyState, scans, nPayReqs, upload, uploadResps,
                 getResp, unhandled, running>>

\* INSERT INTO notifications fails: the catch logs, nothing is pushed and
\* sendNotification resolves normally.
sendNotificationFail(e) ==
  /\ e \in emits
  /\ emits' = emits \ {e}
  /\ errorLog' = errorLog \cup {LogLine("Notification Error: insert", e.by, e.cid)}
  /\ AfterEmit(e)
  /\ UNCHANGED <<now, customers, nextCustomerId, payments, notifications,
                 clients, readyState, sent, scans, nPayReqs, upload,
                 uploadResps, getResp, unhandled, running>>

\* ------------------------------------------------------ websocket server
WsConnect ==
  /\ Len(readyState) < MaxSockets
  /\ readyState' = Append(readyState, "OPEN")
  /\ clients' = Append(clients, Len(readyState) + 1)
  /\ UNCHANGED <<now, customers, nextCustomerId, payments, notifications,
                 sent, emits, errorLog, scans, payReq, nPayReqs, responses,
                 upload, uploadResps, getResp, unhandled, running>>

\* The closing handshake has started; the socket is still in wss.clients.
WsClosing(c) ==
  /\ c \in OpenClients
  /\ readyState' = [readyState EXCEPT ![c] = "CLOSING"]
  /\ UNCHANGED <<now, customers, nextCustomerId, payments, notifications,
                 clients, sent, emits, errorLog, scans, payReq, nPayReqs,
                 responses, upload, uploadResps, getResp, unhandled, running>>

\* 'close': ws removes the socket from wss.clients.
WsClosed(c) ==
  /\ c \in DOMAIN readyState /\ readyState[c] # "CLOSED"
  /\ readyState' = [readyState EXCEPT ![c] = "CLOSED"]
  /\ clients' = SelectSeq(clients, LAMBDA x : x # c)
  /\ UNCHANGED <<now, customers, nextCustomerId, payments, notifications,
                 sent, emits, errorLog, scans, payReq, nPayReqs, responses,
                 upload, uploadResps, getResp, unhandled, running>>

\* ------------------------------------------------- part_000: customers
\* POST /customers: INSERT, then await sendNotification (customer_added);
\* the 200 is written when sendNotification has resolved (AfterEmit).
PostCustomers(p) ==
  /\ nextCustomerId <= MaxCustomers
  /\ ~BindsUndefined(p)
  /\ customers' = customers \cup {Row(p, nextCustomerId)}
  /\ nextCustomerId' = nextCustomerId + 1
  /\ emits' = emits \cup
       {Emit(Caller("customers", nextCustomerId), "customer_added", p.name,
             nextCustomerId, 0)}
  /\ UNCHANGED <<now, payments, notifications, clients, readyState, sent,
                 errorLog, scans, payReq, nPayReqs, responses, upload,
                 uploadResps, getResp, unhandled, running>>

\* POST /customers whose INSERT throws (undefined bind parameter, or the
\* database fails): 500.
PostCustomersFail(p) ==
  /\ responses' = responses \cup {Response("customers", 0, 500, 0, 0)}
  /\ UNCHANGED <<now, customers, nextCustomerId, payments, notifications,
                 clients, readyState, sent, emits, errorLog, scans, payReq, nPayReqs,
                 upload, uploadResps, getResp, unhandled, running>>

\* DELETE /customers/:id.  (A DELETE that fails changes nothing.)
DeleteCustomer(id) ==
  /\ customers' = {c \in customers : c.id # id}
  /\ UNCHANGED <<now, nextCustomerId, payments, notifications, clients,
                 readyState, sent, emits, errorLog, scans, payReq, nPayReqs,
                 responses, upload, uploadResps, getResp, unhandled, running>>

\* GET /customers/:id.  Neither program registers this route (the routes on
\* /customers/:id are DELETE and PUT), so express falls through to its
\* final handler, which answers 404 whatever the id.
GetCustomerById(id) ==
  /\ getResp' = [status |-> 404, id |-> id, body |-> "Cannot GET"]
  /\ UNCHANGED <<now, customers, nextCustomerId, payments, notifications,
                 clients, readyState, sent, emits, errorLog, scans, payReq,
                 nPayReqs, responses, upload, uploadResps, unhandled, running>>

\* -------------------------------------------------- part_000: payments
\* POST /payments: INSERT INTO payments.  The requests are those that name
\* a customer of the table.
PostPayments(customerId, amount) ==
  /\ payReq.pc = "idle" /\ nPayReqs < MaxPayments
  /\ customerId \in Ids(customers)
  /\ nPayReqs' = nPayReqs + 1
  /\ payments' = payments \cup
       {[req |-> nPayReqs + 1, customerId |-> customerId, amount |-> amount]}
  /\ payReq' = [pc |-> "update", n |-> nPayReqs + 1,
                customerId |-> customerId, amount |-> amount]
  /\ UNCHANGED <<now, customers, nextCustomerId, notifications, clients,
                 readyState, sent, emits, errorLog, scans, responses, upload,
                 uploadResps, getResp, unhandled, running>>

\* The INSERT fails: 500.
PostPaymentsFail(customerId, amount) ==
  /\ payReq.pc = "idle" /\ nPayReqs < MaxPayments
  /\ customerId \in Ids(customers)
  /\ nPayReqs' = nPayReqs + 1
  /\ responses' = responses \cup
       {Response("payments", nPayReqs + 1, 500, customerId, amount)}
  /\ UNCHANGED <<now, customers, nextCustomerId, payments, notifications,
                 clients, readyState, sent, emits, errorLog, scans, payReq, upload,
                 uploadResps, getResp, unhandled, running>>

\* PayUpdate without the status flip (the handler of src/server.js, with
\* the notification kept).
PayUpdateNoFlip ==
  /\ payReq.pc = "update"
  /\ emits' = emits \cup
       {Emit(Caller("payments", payReq.n), "payment_received", "",
             payReq.customerId, payReq.amount)}
  /\ payReq' = [payReq EXCEPT !.pc = "notify"]
  /\ UNCHANGED <<now, customers, nextCustomerId, payments, notifications,
                 clients, readyState, sent, errorLog, scans, nPayReqs,
                 responses, upload, uploadResps, getResp, unhandled, running>>

\* UPDATE customers SET paymentStatus = "Completed" WHERE id = customerId,
\* then sendNotification (payment_received) is called.
PayUpdate ==
  /\ payReq.pc = "update"
  /\ customers' =
       {IF c.id = payReq.customerId
        THEN [c EXCEPT !.paymentStatus = "Completed"] ELSE c : c \in customers}
  /\ emits' = emits \cup
       {Emit(Caller("payments", payReq.n), "payment_received", "",
             payReq.customerId, payReq.amount)}
  /\ payReq' = [payReq EXCEPT !.pc = "notify"]
  /\ UNCHANGED <<now, nextCustomerId, payments, notifications, clients,
                 readyState, sent, errorLog, scans, nPayReqs, responses,
                 upload, uploadResps, getResp, unhandled, running>>

\* The UPDATE is applied and an error is still reported: 500 with the status
\* flipped.
PayUpdateFailFlipped ==
  /\ payReq.pc = "update"
  /\ customers' =
       {IF c.id = payReq.customerId
        THEN [c EXCEPT !.paymentStatus = "Completed"] ELSE c : c \in customers}
  /\ responses' = responses \cup
       {Response("payments", payReq.n, 500, payReq.customerId, payReq.amount)}
  /\ payReq' = NoPayment
  /\ UNCHANGED <<now, nextCustomerId, payments, notifications,
                 clients, readyState, sent, emits, errorLog, scans, nPayReqs, upload,
                 uploadResps, getResp, unhandled, running>>

\* The UPDATE fails: 500; the payment row inserted before stays.
PayUpdateFail ==
  /\ payReq.pc = "update"
  /\ responses' = responses \cup
       {Response("payments", payReq.n, 500, payReq.customerId, payReq.amount)}
  /\ payReq' = NoPayment
  /\ UNCHANGED <<now, customers, nextCustomerId, payments, notifications,
                 clients, readyState, sent, emits, errorLog, scans, nPayReqs, upload,
                 uploadResps, getResp, unhandled, running>>

\* ------------------------------------------ part_000: overdue scanner
\* The query with a suppression of customers already alerted.
OverdueCustomersOnce(t) ==
  {[id |-> c.id, name |-> c.name] :
     c \in {x \in customers :
              /\ x.paymentStatus = "Pending" /\ x.dueDate < t
              /\ \A i \in DOMAIN notifications :
                   ~(notifications[i].type = "payment_overdue"
                     /\ notifications[i].cid = x.id)}}

\* SELECT id, name FROM customers WHERE paymentStatus = "Pending" AND
\* dueDate < NOW()
OverdueCustomers(t) ==
  {[id |-> c.id, name |-> c.name] :
     c \in {x \in customers : x.paymentStatus = "Pending" /\ x.dueDate < t}}

\* One firing of setInterval(checkOverduePayments), one interval after the
\* last: the query, then forEach starts one async callback per row, each
\* calling sendNotification.  `at` is the number of notification rows the
\* table holds when the query runs.
checkOverduePayments ==
  /\ Len(scans) < MaxTicks
  /\ now' = now + 1
  /\ scans' = Append(scans, [ok |-> TRUE, rows |-> OverdueCustomers(now + 1),
                             at |-> Len(notifications)])
  /\ emits' = emits \cup
       {Emit(Caller("scan", Len(scans) + 1), "payment_overdue", r.name, r.id, 0)
          : r \in OverdueCustomers(now + 1)}
  /\ UNCHANGED <<customers, nextCustomerId, payments, notifications,
                 clients, readyState, sent, errorLog, payReq, nPayReqs,
                 responses, upload, uploadResps, getResp, unhandled, running>>

\* The query fails: logged, the tick is skipped.
checkOverduePaymentsFail ==
  /\ Len(scans) < MaxTicks
  /\ now' = now + 1
  /\ scans' = Append(scans, [ok |-> FALSE, rows |-> {},
                             at |-> Len(notifications)])
  /\ UNCHANGED <<customers, nextCustomerId, payments, notifications,
                 clients, readyState, sent, emits, errorLog, payReq, nPayReqs,
                 responses, upload, uploadResps, getResp, unhandled, running>>

\* ---------------------------------------------------- upload-customers
Batches ==
  UNION {[1..n -> {p \in Payloads : p.dueDate = 0 /\ p.paymentStatus = "Pending"}]
           : n \in 0..MaxBatch}

\* No file in the request: 400.
UploadNoFile ==
  /\ upload.pc = "idle"
  /\ uploadResps' = uploadResps \cup {[status |-> 400, rows |-> {}, size |-> 0]}
  /\ UNCHANGED <<now, customers, nextCustomerId, payments, notifications,
                 clients, readyState, sent, emits, errorLog, scans, payReq,
                 nPayReqs, responses, upload, getResp, unhandled, running>>

\* The sheet is parsed, a connection is taken from the pool and
\* beginTransaction is issued.
UploadBegin(data) ==
  /\ upload.pc = "idle"
  /\ nextCustomerId + Len(data) - 1 <= MaxCustomers
  /\ upload' = [pc |-> "rows", rows |-> data, i |-> 1, tx |-> {}]
  /\ UNCHANGED <<now, customers, nextCustomerId, payments, notifications,
                 clients, readyState, sent, emits, errorLog, scans, payReq,
                 nPayReqs, responses, uploadResps, getResp, unhandled, running>>

\* The sheet cannot be read, or no connection or transaction is to be had:
\* 500 before any row was inserted.
UploadBeginFail(data) ==
  /\ upload.pc = "idle"
  /\ uploadResps' = uploadResps \cup
       {[status |-> 500, rows |-> {}, size |-> Len(data)]}
  /\ UNCHANGED <<now, customers, nextCustomerId, payments, notifications,
                 clients, readyState, sent, emits, errorLog, scans, payReq,
                 nPayReqs, responses, upload, getResp, unhandled, running>>

\* UploadInsertRow with the INSERT issued outside the transaction (on the
\* pool instead of the connection): the row is committed at once.
UploadInsertRowAutocommit ==
  /\ upload.pc = "rows" /\ upload.i <= Len(upload.rows)
  /\ ~BindsUndefined(upload.rows[upload.i])
  /\ upload' = [upload EXCEPT
                  !.tx = @ \cup {Row(upload.rows[upload.i], nextCustomerId)},
                  !.i = @ + 1]
  /\ customers' = customers \cup {Row(upload.rows[upload.i], nextCustomerId)}
  /\ nextCustomerId' = nextCustomerId + 1
  /\ UNCHANGED <<now, payments, notifications, clients, readyState, sent,
                 emits, errorLog, scans, payReq, nPayReqs, responses,
                 uploadResps, getResp, unhandled, running>>

\* connection.execute(INSERT) of row i inside the transaction: the row is
\* not visible to the other connections before the commit.  The id taken
\* from AUTO_INCREMENT is not given back by a rollback.
UploadInsertRow ==
  /\ upload.pc = "rows" /\ upload.i <= Len(upload.rows)
  /\ ~BindsUndefined(upload.rows[upload.i])
  /\ upload' = [upload EXCEPT
                  !.tx = @ \cup {Row(upload.rows[upload.i], nextCustomerId)},
                  !.i = @ + 1]
  /\ nextCustomerId' = nextCustomerId + 1
  /\ UNCHANGED <<now, customers, payments, notifications, clients,
                 readyState, sent, emits, errorLog, scans, payReq, nPayReqs,
                 responses, uploadResps, getResp, unhandled, running>>

\* catch: rollback, rethrow; finally: release; outer catch: 500.
UploadRollback ==
  /\ upload' = NoUpload
  /\ uploadResps' = uploadResps \cup
       {[status |-> 500, rows |-> upload.tx, size |-> Len(upload.rows)]}
  /\ UNCHANGED <<now, customers, nextCustomerId, payments, notifications,
                 clients, readyState, sent, emits, errorLog, scans, payReq, nPayReqs,
                 responses, getResp, unhandled, running>>

\* The INSERT of row i throws (an undefined cell, or the database fails).
UploadInsertRowFail ==
  /\ upload.pc = "rows" /\ upload.i <= Len(upload.rows)
  /\ UploadRollback

\* connection.commit(), then 200.
UploadCommit ==
  /\ upload.pc = "rows" /\ upload.i > Len(upload.rows)
  /\ customers' = customers \cup upload.tx
  /\ upload' = NoUpload
  /\ uploadResps' = uploadResps \cup
       {[status |-> 200, rows |-> upload.tx, size |-> Len(upload.rows)]}
  /\ UNCHANGED <<now, nextCustomerId, payments, notifications, clients,
                 readyState, sent, emits, errorLog, scans, payReq, nPayReqs,
                 responses, getResp, unhandled, running>>

\* The commit throws.
UploadCommitFail ==
  /\ upload.pc = "rows" /\ upload.i > Len(upload.rows)
  /\ UploadRollback

\* -------------------------------------------------------- src/server.js
\* POST /customers: INSERT, then 200; no notification.
PostCustomersSrc(p) ==
  /\ nextCustomerId <= MaxCustomers
  /\ ~BindsUndefined(p)
  /\ customers' = customers \cup {Row(p, nextCustomerId)}
  /\ nextCustomerId' = nextCustomerId + 1
  /\ responses' = responses \cup
       {Response("customers", nextCustomerId, 200, 0, 0)}
  /\ UNCHANGED <<now, payments, notifications, clients, readyState, sent,
                 emits, errorLog, scans, payReq, nPayReqs, upload,
                 uploadResps, getResp, unhandled, running>>

PostCustomersSrcFail(p) ==
  /\ responses' = responses \cup {Response("customers", 0, 500, 0, 0)}
  /\ UNCHANGED <<now, customers, nextCustomerId, payments, notifications,
                 clients, readyState, sent, emits, errorLog, scans, payReq,
                 nPayReqs, upload, uploadResps, getResp, unhandled, running>>

\* POST /payments: INSERT INTO payments, then 200.  The customer row is not
\* touched and nothing is notified.
PostPaymentsSrc(customerId, amount) ==
  /\ nPayReqs < MaxPayments
  /\ customerId \in Ids(customers)
  /\ nPayReqs' = nPayReqs + 1
  /\ payments' = payments \cup
       {[req |-> nPayReqs + 1, customerId |-> customerId, amount |-> amount]}
  /\ responses' = responses \cup
       {Response("payments", nPayReqs + 1, 200, customerId, amount)}
  /\ UNCHANGED <<now, customers, nextCustomerId, notifications, clients,
                 readyState, sent, emits, errorLog, scans, payReq, upload,
                 uploadResps, getResp, unhandled, running>>

PostPaymentsSrcFail(customerId, amount) ==
  /\ nPayReqs < MaxPayments
  /\ customerId \in Ids(customers)
  /\ nPayReqs' = nPayReqs + 1
  /\ responses' = responses \cup
       {Response("payments", nPayReqs + 1, 500, customerId, amount)}
  /\ UNCHANGED <<now, customers, nextCustomerId, payments, notifications,
                 clients, readyState, sent, emits, errorLog, scans, payReq,
                 upload, uploadResps, getResp, unhandled, running>>

\* checkOverduePayments: the query, then forEach starts one async callback
\* per row.  sendNotification is not defined in this file: evaluating it
\* throws a ReferenceError inside the callback, whose promise is rejected
\* and handled by nobody (forEach drops it, the try/catch has been left).
checkOverduePaymentsSrc ==
  /\ Len(scans) < MaxTicks
  /\ now' = now + 1
  /\ scans' = Append(scans, [ok |-> TRUE, rows |-> OverdueCustomers(now + 1),
                             at |-> Len(notifications)])
  /\ unhandled' = unhandled \cup
       {LogLine("ReferenceError", Caller("scan", Len(scans) + 1), r.id)
          : r \in OverdueCustomers(now + 1)}
  /\ UNCHANGED <<customers, nextCustomerId, payments, notifications,
                 clients, readyState, sent, emits, errorLog, payReq, nPayReqs,
                 responses, upload, uploadResps, getResp, running>>

\* An unhandled rejection ends the process (the default of node 15 and
\* later; earlier versions only warn, and the process goes on).
ProcessExit ==
  /\ unhandled # {}
  /\ running' = FALSE
  /\ UNCHANGED <<now, customers, nextCustomerId, payments, notifications,
                 clients, readyState, sent, emits, errorLog, scans, payReq,
                 nPayReqs, responses, upload, uploadResps, getResp, unhandled>>

\* ------------------------------------------------------- specifications
Upload ==
  \/ UploadNoFile
  \/ \E data \in Batches : UploadBegin(data) \/ UploadBeginFail(data)
  \/ UploadInsertRow
  \/ UploadInsertRowFail
  \/ UploadCommit
  \/ UploadCommitFail

\* part_000, everything together.
Next ==
  \/ \E p \in Payloads : PostCustomers(p) \/ PostCustomersFail(p)
  \/ \E id \in 1..MaxCustomers : DeleteCustomer(id) \/ GetCustomerById(id)
  \/ \E c \in 1..MaxCustomers, a \in Amounts :
       PostPayments(c, a) \/ PostPaymentsFail(c, a)
  \/ PayUpdate
  \/ PayUpdateFail
  \/ checkOverduePayments
  \/ checkOverduePaymentsFail
  \/ \E e \in emits, t \in 0..MaxSockets : sendNotification(e, t)
  \/ \E e \in emits : sendNotificationFail(e)
  \/ WsConnect
  \/ \E c \in 1..MaxSockets : WsClosing(c) \/ WsClosed(c)
  \/ Upload

Spec == Init /\ [][Next]_vars

\* The handlers of part_000 share the tables and nothing else, so each
\* group of claims is stated over the composition of the handlers that
\* write or read the state it is about.

\* The server started against a database that already holds customers.
InitialTables ==
  {{Row(f[id], id) : id \in 1..MaxCustomers} :
     f \in [1..MaxCustomers -> {p \in Payloads : p.name = "Acme"}]}

InitScan ==
  /\ customers \in InitialTables
  /\ nextCustomerId = Cardinality(customers) + 1
  /\ now = 0
  /\ payments = {}
  /\ notifications = <<>>
  /\ clients = <<>>
  /\ readyState = <<>>
  /\ sent = {}
  /\ emits = {}
  /\ errorLog = {}
  /\ scans = <<>>
  /\ payReq = NoPayment
  /\ nPayReqs = 0
  /\ responses = {}
  /\ upload = NoUpload
  /\ uploadResps = {}
  /\ getResp = NoResp
  /\ unhandled = {}
  /\ running = TRUE

\* sendNotification, its callers in the request handlers and the websocket
\* server.
NextEmit ==
  \/ \E p \in {q \in Payloads : q.dueDate = 0 /\ q.paymentStatus = "Pending"} :
       PostCustomers(p) \/ PostCustomersFail(p)
  \/ \E e \in emits, t \in 0..MaxSockets : sendNotification(e, t)
  \/ \E e \in emits : sendNotificationFail(e)
  \/ WsConnect
  \/ \E c \in 1..MaxSockets : WsClosing(c) \/ WsClosed(c)

SpecEmit == Init /\ [][NextEmit]_vars

\* The overdue scanner beside POST /payments and DELETE /customers/:id.
NextScan ==
  \/ \E id \in 1..MaxCustomers : DeleteCustomer(id)
  \/ \E c \in 1..MaxCustomers, a \in Amounts :
       PostPayments(c, a) \/ PostPaymentsFail(c, a)
  \/ PayUpdate
  \/ PayUpdateFail
  \/ checkOverduePayments
  \/ checkOverduePaymentsFail
  \/ \E e \in emits : sendNotification(e, 0) \/ sendNotificationFail(e)

SpecScan == InitScan /\ [][NextScan]_vars

\* POST /payments alone: its three statements and their failures.
NextPay ==
  \/ \E id \in 1..MaxCustomers : DeleteCustomer(id)
  \/ \E c \in 1..MaxCustomers, a \in Amounts :
       PostPayments(c, a) \/ PostPaymentsFail(c, a)
  \/ PayUpdate
  \/ PayUpdateFail
  \/ \E e \in emits : sendNotification(e, 0) \/ sendNotificationFail(e)

SpecPay == InitScan /\ [][NextPay]_vars

\* The customers table: single insert, delete, read by id.
NextCustomers ==
  \/ \E p \in Payloads : PostCustomers(p) \/ PostCustomersFail(p)
  \/ \E id \in 1..MaxCustomers : DeleteCustomer(id) \/ GetCustomerById(id)
  \/ \E e \in emits : sendNotification(e, 0) \/ sendNotificationFail(e)

SpecCustomers == Init /\ [][NextCustomers]_vars

\* The bulk import beside the other writers of the customers table.
NextUpload ==
  \/ Upload
  \/ \E p \in {q \in Payloads : q.dueDate = 0 /\ q.paymentStatus = "Pending"} :
       PostCustomers(p)
  \/ \E e \in emits : sendNotification(e, 0)
  \/ \E id \in 1..MaxCustomers : DeleteCustomer(id)

SpecUpload == Init /\ [][NextUpload]_vars

\* The program of src/server.js.
NextSrc ==
  \/ /\ running
     /\ \/ \E p \in Payloads : PostCustomersSrc(p) \/ PostCustomersSrcFail(p)
        \/ \E c \in 1..MaxCustomers, a \in Amounts :
             PostPaymentsSrc(c, a) \/ PostPaymentsSrcFail(c, a)
        \/ checkOverduePaymentsSrc
        \/ checkOverduePaymentsFail
  \/ running /\ ProcessExit

SpecSrc == InitScan /\ [][NextSrc]_vars

\* ================================================================ claims
\* Rows of type payment_overdue stored for customer c by the scan tick t.
OverdueRows(t, c) ==
  {i \in DOMAIN notifications :
     /\ notifications[i].type = "payment_overdue"
     /\ notifications[i].by = Caller("scan", t)
     /\ notifications[i].cid = c}

\* The callback of tick t for customer c has ended.
CallbackDone(t, c) ==
  \A e \in emits : ~(e.by = Caller("scan", t) /\ e.cid = c)

InsertFailed(by, c) ==
  LogLine("Notification Error: insert", by, c) \in errorLog

LastScan == scans'[Len(scans')]

\* C1: once POST /payments (customerId = X, amount = A) has answered 200,
\* X's paymentStatus is "Completed" and the request has inserted exactly one
\* payment row, with customerId X and amount A.
C1_PaymentCompletes ==
  \A r \in responses :
    (r.kind = "payments" /\ r.status = 200) =>
      /\ \A c \in customers :
           c.id = r.customerId => c.paymentStatus = "Completed"
      /\ {p \in payments : p.req = r.n} =
           {[req |-> r.n, customerId |-> r.customerId, amount |-> r.amount]}

\* C2: the bulk import is all-or-nothing.  No row inserted by an import
\* that answered 500 is ever in the customers table, no row of an import in
\* flight is in it before the commit, and when an import answers 200 every
\* row of its sheet is in the table.
C2_AllOrNothing ==
  /\ [](\A r \in uploadResps :
          r.status = 500 => Ids(r.rows) \cap Ids(customers) = {})
  /\ [](Ids(upload.tx) \cap Ids(customers) = {})
  /\ [][\A r \in uploadResps' \ uploadResps :
          /\ r.status = 200 =>
               r.rows \subseteq customers' /\ Cardinality(r.rows) = r.size
          /\ r.status = 500 => r.rows \cap customers' = {}]_vars

\* An import failed after it had inserted a row, and another one succeeded.
C2_Witness ==
  /\ \E r \in uploadResps : r.status = 500 /\ r.rows # {}
  /\ \E r \in uploadResps :
       r.status = 200 /\ r.rows # {} /\ r.rows \subseteq customers

\* C3: one invocation of checkOverduePayments produces exactly one
\* payment_overdue row for each customer its query returned (Pending and
\* dueDate before NOW() when the query ran) and none for any other customer.
C3_OnePerOverdue ==
  \A t \in DOMAIN scans : \A c \in 1..MaxCustomers :
    CallbackDone(t, c) =>
      Cardinality(OverdueRows(t, c)) =
        IF c \in Ids(scans[t].rows) THEN 1 ELSE 0

\* C4: storing a notification row is followed, in the same emit, by a send
\* to every subscriber that is open then and to no other, and no send of it
\* is made at any other time (a later subscriber never gets it).
C4_BroadcastToOpen ==
  /\ [][Len(notifications') > Len(notifications) =>
          /\ {s.to : s \in sent' \ sent} = OpenClients
          /\ \A s \in sent' \ sent : s.n = Len(notifications')]_vars
  /\ [][sent' # sent => Len(notifications') > Len(notifications)]_vars

\* C5: in an emit where the send to one subscriber throws, every other open
\* subscriber still gets its send.
C5_PushIsolation ==
  [][(\E s \in sent' \ sent : s.threw) =>
       \A c \in OpenClients : \E s \in sent' \ sent : s.to = c]_vars

\* C6: GET /customers/:id for a customer created by a POST /customers that
\* answered 200 returns 200 with the stored record, which holds the
\* submitted values; for an id with no customer it answers 404.
C6_RoundTrip ==
  [][getResp' # getResp =>
       IF \E c \in customers : c.id = getResp'.id
       THEN /\ getResp'.status = 200
            /\ getResp'.body \in customers
       ELSE getResp'.status = 404]_vars

\* C7: within one tick the matches are processed independently: a match
\* whose own emit did not fail has its payment_overdue row once its callback
\* has ended, whatever happened to the emits of the other matches, and the
\* scan does not crash (no rejection is left unhandled, the process lives).
C7_IndependentMatches ==
  /\ unhandled = {} /\ running
  /\ \A t \in DOMAIN scans : \A r \in scans[t].rows :
       (CallbackDone(t, r.id) /\ ~InsertFailed(Caller("scan", t), r.id)) =>
         OverdueRows(t, r.id) # {}

\* C8: when the insert of the notification row fails, no subscriber gets a
\* push, no row is stored, and the caller is not told: nothing is rejected
\* and a request handler that awaited the emit answers 200.
C8_InsertFailureAborts ==
  [][\A l \in errorLog' \ errorLog :
       l.tag = "Notification Error: insert" =>
         /\ sent' = sent
         /\ notifications' = notifications
         /\ unhandled' = {}
         /\ l.by.kind # "scan" =>
              \E r \in responses' \ responses :
                r.kind = l.by.kind /\ r.n = l.by.n /\ r.status = 200]_vars

\* An insert failed while a subscriber was open, and the caller answered 200.
C8_Witness ==
  /\ \E l \in errorLog :
       /\ l.tag = "Notification Error: insert"
       /\ \E r \in responses : r.kind = l.by.kind /\ r.n = l.by.n
  /\ OpenClients # {}
  /\ sent = {}

\* C9 as stated: no de-duplication.  A customer that is Pending and past
\* due when a tick's query runs has a new payment_overdue row of that tick
\* once the tick's callback for it has ended, and a customer that is not
\* (Completed, or deleted) gets no row of that tick.
C9_NotifiedEveryTick ==
  \A t \in DOMAIN scans : \A c \in 1..MaxCustomers :
    /\ (c \in Ids(scans[t].rows) /\ CallbackDone(t, c)) =>
         OverdueRows(t, c) # {}
    /\ OverdueRows(t, c) # {} => c \in Ids(scans[t].rows)

\* C9 as amended: no de-duplication.  A tick whose query succeeds matches
\* exactly the customers that are Pending and past due when it runs,
\* whatever was notified before; each match gets one new row of that tick
\* unless the insert of that row fails; a customer that is Completed or
\* deleted when the query runs gets no row of that tick.
C9_NoDedup ==
  /\ [][(Len(scans') > Len(scans) /\ LastScan.ok) =>
          Ids(LastScan.rows) =
            {c.id : c \in {x \in customers :
                             x.paymentStatus = "Pending" /\ x.dueDate < now'}}]_vars
  /\ [](\A t \in DOMAIN scans : \A c \in 1..MaxCustomers :
          /\ OverdueRows(t, c) # {} => c \in Ids(scans[t].rows)
          /\ (c \in Ids(scans[t].rows) /\ CallbackDone(t, c)) =>
               Cardinality(OverdueRows(t, c)) =
                 IF InsertFailed(Caller("scan", t), c) THEN 0 ELSE 1)

\* Two successive ticks have each stored a row for the same customer.
C9_Witness ==
  \E c \in 1..MaxCustomers : \E t \in DOMAIN scans :
    /\ t + 1 \in DOMAIN scans
    /\ OverdueRows(t, c) # {} /\ OverdueRows(t + 1, c) # {}

\* C10 as stated: no payment_overdue row for X is stored after a
\* payment_received row for X.
C10_NoOverdueAfterReceived ==
  \A i, j \in DOMAIN notifications :
    ~(/\ i < j
      /\ notifications[i].type = "payment_received"
      /\ notifications[j].type = "payment_overdue"
      /\ notifications[j].cid = notifications[i].cid)

\* C10 as amended: a payment_overdue row for X stored after a
\* payment_received row for X comes from a tick whose query ran before that
\* payment_received row was stored.
C10_OnlyEarlierTicks ==
  \A i, j \in DOMAIN notifications :
    (/\ i < j
     /\ notifications[i].type = "payment_received"
     /\ notifications[j].type = "payment_overdue"
     /\ notifications[j].cid = notifications[i].cid)
    => scans[notifications[j].by.n].at < i

\* The race: the overdue alert of a paid customer is stored after the
\* receipt of the payment.
C10_Witness ==
  \E i, j \in DOMAIN notifications :
    /\ i < j
    /\ notifications[i].type = "payment_received"
    /\ notifications[j].type = "payment_overdue"
    /\ notifications[j].cid = notifications[i].cid

\* The payment rows stored by request n of POST /payments.
RowsOf(n) == {p \in payments : p.req = n}

\* The 500 answers of POST /payments added by the step.
NewFailures == {r \in responses' \ responses : r.kind = "payments" /\ r.status = 500}

\* C11: when POST /payments answers 500, no payment row of the request
\* remains, and the request has not changed the customer's paymentStatus.
C11_FailureLeavesNoTrace ==
  /\ [](\A r \in responses :
         (r.kind = "payments" /\ r.status = 500) => RowsOf(r.n) = {})
  /\ [][\A r \in NewFailures : customers' = customers /\ payReq.pc # "notify"]_vars

\* C11 as amended: the step that answers 500 leaves customers and payments
\* as they are and never follows the status UPDATE; the request's payment
\* row is absent when the INSERT failed and stays stored when the UPDATE
\* failed after the INSERT; only the step from "update" to "notify", which a
\* 500 never follows, changes a paymentStatus.
C11_StatusKeptRowMayStay ==
  /\ [][\A r \in NewFailures :
          /\ customers' = customers /\ payments' = payments
          /\ payReq.pc \in {"idle", "update"}
          /\ RowsOf(r.n)' =
               IF payReq.pc = "update"
               THEN {[req |-> r.n, customerId |-> r.customerId, amount |-> r.amount]}
               ELSE {}]_vars
  /\ [][(\E c \in customers, d \in customers' :
            c.id = d.id /\ c.paymentStatus # d.paymentStatus)
         => payReq.pc = "update" /\ payReq'.pc = "notify" /\ NewFailures = {}]_vars

\* The UPDATE failed after the INSERT: 500 answered, the row is stored and
\* the customer is still Pending.
C11_Witness ==
  \E r \in responses :
    /\ r.kind = "payments" /\ r.status = 500
    /\ RowsOf(r.n) # {}
    /\ \E c \in customers : c.id = r.customerId /\ c.paymentStatus = "Pending"

====
